---- MODULE Spec2Model ----
(***************************************************************************)
(* Model of cmd/lsf/lsf.go: the "rclone lsf" listing command.              *)
(*                                                                         *)
(* Lsf compiles the --format string into a ListFormat, then hands a        *)
(* callback to walk.Walk.  The callback logs and counts a failed step,     *)
(* and for a successful step filters each entry by --files-only and        *)
(* --dirs-only and prints one formatted line per kept entry.               *)
(***************************************************************************)
EXTENDS Naturals, Sequences, FiniteSets, TLC

\* ---------------------------------------------------------------- bounds

MaxFormatLen == 2   \* longest --format string explored
MaxSteps == 2       \* most steps one traversal delivers
MaxBatch == 2       \* most entries in one step

\* ------------------------------------------------------------ data model

\* The characters a --format string is drawn from: the four field codes of
\* the switch in Lsf and two characters outside it.
KnownChars == {"p", "t", "s", "h"}
UnknownChars == {"x", "y"}
FormatChars == KnownChars \cup UnknownChars

Formats == UNION {[1..n -> FormatChars] : n \in 0..MaxFormatLen}

\* fs.DirEntry values: one fs.Directory and one fs.Object.
Entries ==
  { [path |-> "d", isDir |-> TRUE,  size |-> 0,  modTime |-> ""],
    [path |-> "a", isDir |-> FALSE, size |-> 10, modTime |-> "2020-01-01 00:00:00"] }

\* fs.DirEntries of one directory: no path is listed twice.
Batches ==
  { b \in UNION {[1..n -> Entries] : n \in 0..MaxBatch} :
      \A i, j \in DOMAIN b : i /= j => b[i] /= b[j] }

\* error values
Nil == [kind |-> "nil", char |-> ""]
ErrList == [kind |-> "list", char |-> ""]
ErrWalk == [kind |-> "walk", char |-> ""]
ErrWrite == [kind |-> "write", char |-> ""]
ErrUnknownFormat(char) == [kind |-> "Unknown format character", char |-> char]

\* One call of the walk callback: a batch of entries, or an error.
Steps ==
  { [entries |-> b, err |-> Nil] : b \in Batches }
    \cup { [entries |-> <<>>, err |-> ErrList] }

\* What Object.Hash(hashType) answers on the remote being listed.
HashHex == "d41d8cd98f00b204e9800998ecf8427e"
HashResults ==
  { [sum |-> HashHex, err |-> "nil"],
    [sum |-> "",      err |-> "nil"],
    [sum |-> "",      err |-> "unsupported"],
    [sum |-> "",      err |-> "failed"] }

VARIABLES
  format,      \* --format, as its sequence of characters
  separator,   \* --separator
  dirSlash,    \* --dir-slash
  filesOnly,   \* --files-only
  dirsOnly,    \* --dirs-only
  hashResult,  \* the remote's answer to Object.Hash(hashType)
  pc,          \* where the call of Lsf stands: "start", "walking", "done"
  list,        \* operations.ListFormat: the registered output fields
  walkCalls,   \* number of calls of walk.Walk
  steps,       \* the steps the traversal has delivered to the callback
  fnRets,      \* what the callback returned for each step
  out,         \* one record per Fprintln(out, ...) call
  sinkBroken,  \* the io.Writer given to Lsf refuses every write
  errCount,    \* fs.CountError
  logged,      \* fs.Errorf messages
  ret          \* what Lsf returned

vars == <<format, separator, dirSlash, filesOnly, dirsOnly, hashResult, pc, list,
          walkCalls, steps, fnRets, out, sinkBroken, errCount, logged, ret>>

config == <<format, separator, dirSlash, filesOnly, dirsOnly, hashResult, sinkBroken>>

\* ------------------------------------------------------- operations.ListFormat

AddPath(l) == Append(l, "path")
AddModTime(l) == Append(l, "modTime")
AddSize(l) == Append(l, "size")
AddHash(l) == Append(l, "hash")

\* The hash column, as the command's help describes it.
HashFieldDirUnsupported(entry) ==
  IF entry.isDir THEN "UNSUPPORTED"
  ELSE IF hashResult.err = "unsupported" THEN "UNSUPPORTED"
  ELSE IF hashResult.err /= "nil" THEN "ERROR"
  ELSE hashResult.sum

HashField(entry) ==
  IF entry.isDir THEN ""
  ELSE IF hashResult.err = "unsupported" THEN "UNSUPPORTED"
  ELSE IF hashResult.err /= "nil" THEN "ERROR"
  ELSE hashResult.sum

PathField(entry) ==
  IF entry.isDir /\ dirSlash THEN entry.path \o "/" ELSE entry.path

FieldText(field, entry) ==
  CASE field = "path" -> PathField(entry)
    [] field = "modTime" -> entry.modTime
    [] field = "size" -> ToString(entry.size)
    [] field = "hash" -> HashField(entry)

RECURSIVE JoinFields(_, _, _)
JoinFields(l, entry, i) ==
  IF i > Len(l) THEN ""
  ELSE IF i = Len(l) THEN FieldText(l[i], entry)
  ELSE FieldText(l[i], entry) \o separator \o JoinFields(l, entry, i + 1)

ListFormatted(entry, l) == JoinFields(l, entry, 1)

\* ------------------------------------------------------------ Lsf: format

\* The switch on one format character: the new list and the error.
SwitchCharSwapped(l, char) ==
  CASE char = "p" -> [list |-> AddPath(l), err |-> Nil]
    [] char = "t" -> [list |-> AddSize(l), err |-> Nil]
    [] char = "s" -> [list |-> AddModTime(l), err |-> Nil]
    [] char = "h" -> [list |-> AddHash(l), err |-> Nil]
    [] OTHER -> [list |-> l, err |-> ErrUnknownFormat(char)]

SwitchCharIgnoreUnknown(l, char) ==
  CASE char = "p" -> [list |-> AddPath(l), err |-> Nil]
    [] char = "t" -> [list |-> AddModTime(l), err |-> Nil]
    [] char = "s" -> [list |-> AddSize(l), err |-> Nil]
    [] char = "h" -> [list |-> AddHash(l), err |-> Nil]
    [] OTHER -> [list |-> l, err |-> Nil]

SwitchChar(l, char) ==
  CASE char = "p" -> [list |-> AddPath(l), err |-> Nil]
    [] char = "t" -> [list |-> AddModTime(l), err |-> Nil]
    [] char = "s" -> [list |-> AddSize(l), err |-> Nil]
    [] char = "h" -> [list |-> AddHash(l), err |-> Nil]
    [] OTHER -> [list |-> l, err |-> ErrUnknownFormat(char)]

\* for _, char := range format: stops at the first error.
RECURSIVE RangeFormat(_, _, _)
RangeFormat(f, i, l) ==
  IF i > Len(f) THEN [list |-> l, err |-> Nil]
  ELSE LET r == SwitchChar(l, f[i])
       IN IF r.err /= Nil THEN r ELSE RangeFormat(f, i + 1, r.list)

CompileFormatRejectEmpty(f) ==
  IF f = <<>> THEN [list |-> <<>>, err |-> ErrUnknownFormat("")]
  ELSE RangeFormat(f, 1, <<>>)

CompileFormat(f) == RangeFormat(f, 1, <<>>)

\* ---------------------------------------------------------- Lsf: callback

\* if isDir { if filesOnly { continue } } else { if dirsOnly { continue } }
SkipFilesOnlyWins(entry) ==
  IF filesOnly THEN entry.isDir ELSE (dirsOnly /\ ~entry.isDir)

SkipInverted(entry) == IF entry.isDir THEN dirsOnly ELSE filesOnly

Skip(entry) == IF entry.isDir THEN filesOnly ELSE dirsOnly

\* fmt.Fprintln(out, line): the line and a newline go to the writer; the
\* writer's answer is dropped.
Fprintln(o, entry, line) ==
  Append(o, [entry |-> entry, text |-> line \o "\n", ok |-> ~sinkBroken])

\* for _, entry := range entries
RECURSIVE RangeEntriesBackwards(_, _, _)
RangeEntriesBackwards(entries, i, o) ==
  IF i > Len(entries) THEN o
  ELSE LET entry == entries[Len(entries) + 1 - i]
       IN IF Skip(entry) THEN RangeEntriesBackwards(entries, i + 1, o)
          ELSE RangeEntriesBackwards(entries, i + 1,
                                     Fprintln(o, entry, ListFormatted(entry, list)))

RECURSIVE RangeEntries(_, _, _)
RangeEntries(entries, i, o) ==
  IF i > Len(entries) THEN o
  ELSE LET entry == entries[i]
       IN IF Skip(entry) THEN RangeEntries(entries, i + 1, o)
          ELSE RangeEntries(entries, i + 1,
                            Fprintln(o, entry, ListFormatted(entry, list)))

\* fs.Errorf(path, "error listing: %v", err)
Errorf(path, err) == [path |-> path, msg |-> "error listing", err |-> err]

\* The callback given to walk.Walk.  st holds out, errCount and logged as
\* they stand before the call; the result holds them after it, together
\* with the callback's return value.
fnReturnsWriteError(path, entries, err, st) ==
  IF err /= Nil
  THEN [ret |-> Nil, out |-> st.out, errCount |-> st.errCount + 1,
        logged |-> Append(st.logged, Errorf(path, err))]
  ELSE LET kept == SelectSeq(entries, LAMBDA e : ~Skip(e))
       IN IF kept /= <<>> /\ sinkBroken
          THEN [ret |-> ErrWrite,
                out |-> Fprintln(st.out, kept[1], ListFormatted(kept[1], list)),
                errCount |-> st.errCount, logged |-> st.logged]
          ELSE [ret |-> Nil, out |-> RangeEntries(entries, 1, st.out),
                errCount |-> st.errCount, logged |-> st.logged]

fnReturnsHashError(path, entries, err, st) ==
  IF err /= Nil
  THEN [ret |-> Nil, out |-> st.out, errCount |-> st.errCount + 1,
        logged |-> Append(st.logged, Errorf(path, err))]
  ELSE [ret |-> IF /\ hashResult.err = "failed"
                   /\ \E i \in DOMAIN list : list[i] = "hash"
                   /\ \E i \in DOMAIN entries :
                        ~entries[i].isDir /\ ~Skip(entries[i])
                THEN ErrList ELSE Nil,
        out |-> RangeEntries(entries, 1, st.out),
        errCount |-> st.errCount, logged |-> st.logged]

fnReturnsStepError(path, entries, err, st) ==
  IF err /= Nil
  THEN [ret |-> err, out |-> st.out, errCount |-> st.errCount + 1,
        logged |-> Append(st.logged, Errorf(path, err))]
  ELSE [ret |-> Nil, out |-> RangeEntries(entries, 1, st.out),
        errCount |-> st.errCount, logged |-> st.logged]

fn(path, entries, err, st) ==
  IF err /= Nil
  THEN [ret |-> Nil, out |-> st.out, errCount |-> st.errCount + 1,
        logged |-> Append(st.logged, Errorf(path, err))]
  ELSE [ret |-> Nil, out |-> RangeEntries(entries, 1, st.out),
        errCount |-> st.errCount, logged |-> st.logged]

\* ---------------------------------------------------------------- actions

Init ==
  /\ format \in Formats
  /\ separator \in {";"}
  /\ dirSlash \in BOOLEAN
  /\ filesOnly \in BOOLEAN
  /\ dirsOnly \in BOOLEAN
  /\ hashResult \in HashResults
  /\ pc = "start"
  /\ list = <<>>
  /\ walkCalls = 0
  /\ steps = <<>>
  /\ fnRets = <<>>
  /\ out = <<>>
  /\ sinkBroken \in BOOLEAN
  /\ errCount = 0
  /\ logged = <<>>
  /\ ret = Nil

\* Lsf up to the call of walk.Walk: compile the format, return on a bad
\* character, otherwise start the walk.
LsfCall ==
  /\ pc = "start"
  /\ LET c == CompileFormat(format)
     IN /\ list' = c.list
        /\ IF c.err /= Nil
           THEN /\ ret' = c.err
                /\ pc' = "done"
                /\ walkCalls' = walkCalls
           ELSE /\ ret' = ret
                /\ pc' = "walking"
                /\ walkCalls' = walkCalls + 1
  /\ UNCHANGED <<config, steps, fnRets, out, errCount, logged>>

\* The path walk.Walk reports for its next step: the root first.
StepPath == IF steps = <<>> THEN "" ELSE "d"

\* walk.Walk delivers one step to the callback.  An error from the
\* callback ends the walk and is what walk.Walk returns.
WalkStep ==
  /\ pc = "walking"
  /\ Len(steps) < MaxSteps
  /\ \E s \in Steps :
       LET r == fn(StepPath, s.entries, s.err,
                   [out |-> out, errCount |-> errCount, logged |-> logged])
       IN /\ steps' = Append(steps, [path |-> StepPath, entries |-> s.entries,
                                     err |-> s.err])
          /\ fnRets' = Append(fnRets, r.ret)
          /\ out' = r.out
          /\ errCount' = r.errCount
          /\ logged' = r.logged
          /\ IF r.ret /= Nil
             THEN pc' = "done" /\ ret' = r.ret
             ELSE pc' = "walking" /\ ret' = ret
  /\ UNCHANGED <<config, list, walkCalls>>

\* walk.Walk cannot start the traversal.
WalkFatal ==
  /\ pc = "walking"
  /\ steps = <<>>
  /\ pc' = "done"
  /\ ret' = ErrWalk
  /\ UNCHANGED <<config, list, walkCalls, steps, fnRets, out, errCount, logged>>

\* walk.Walk has no more steps and returns nil; Lsf returns it.
WalkReturn ==
  /\ pc = "walking"
  /\ pc' = "done"
  /\ ret' = Nil
  /\ UNCHANGED <<config, list, walkCalls, steps, fnRets, out, errCount, logged>>

Next == LsfCall \/ WalkStep \/ WalkFatal \/ WalkReturn

Spec == Init /\ [][Next]_vars

\* ------------------------------------------------------------- properties

ValidFormat == \A i \in DOMAIN format : format[i] \in KnownChars

\* The first character of the format that is no field code.
FirstUnknown ==
  format[CHOOSE i \in DOMAIN format :
           /\ format[i] \notin KnownChars
           /\ \A j \in 1..(i - 1) : format[j] \in KnownChars]

\* The entries of all delivered steps, in delivery order.
RECURSIVE Delivered(_)
Delivered(n) == IF n = 0 THEN <<>> ELSE Delivered(n - 1) \o steps[n].entries

AllEntries == Delivered(Len(steps))

OutEntries == [i \in DOMAIN out |-> out[i].entry]

Occurrences(e, seq) == Cardinality({i \in DOMAIN seq : seq[i] = e})

IsFile(e) == ~e.isDir
IsDir(e) == e.isDir

AllNil(seq) == \A i \in DOMAIN seq : seq[i] = Nil

\* C1: with files-only alone no line is written for a Directory and every
\* non-directory entry of a successful step gets a line; with dirs-only
\* alone no line is written for a non-directory and every Directory gets a
\* line; with neither flag every entry gets exactly one line.
C1_Filter ==
  /\ (filesOnly /\ ~dirsOnly) =>
       /\ \A i \in DOMAIN out : ~out[i].entry.isDir
       /\ \A e \in Entries :
            ~e.isDir => Occurrences(e, OutEntries) = Occurrences(e, AllEntries)
  /\ (dirsOnly /\ ~filesOnly) =>
       /\ \A i \in DOMAIN out : out[i].entry.isDir
       /\ \A e \in Entries :
            e.isDir => Occurrences(e, OutEntries) = Occurrences(e, AllEntries)
  /\ (~filesOnly /\ ~dirsOnly) =>
       \A e \in Entries : Occurrences(e, OutEntries) = Occurrences(e, AllEntries)

C1_Witness ==
  /\ pc = "done"
  /\ filesOnly /\ ~dirsOnly
  /\ \E i, j \in DOMAIN AllEntries : AllEntries[i].isDir /\ ~AllEntries[j].isDir
  /\ Len(out) >= 1

\* C2: a step that reports an error writes no line, adds one to the error
\* counter, logs one message and leaves the walk running; a successful
\* step that comes after an error step still has each of its kept entries
\* written.
C2_ErrorStepSkipped ==
  [][Len(steps') = Len(steps) + 1 =>
       LET s == steps'[Len(steps')]
       IN IF s.err /= Nil
          THEN /\ out' = out
               /\ errCount' = errCount + 1
               /\ logged' = Append(logged, Errorf(s.path, s.err))
               /\ pc' = "walking"
          ELSE errCount > 0 =>
                 /\ Len(out') = Len(out) + Len(SelectSeq(s.entries, LAMBDA e : ~Skip(e)))
                 /\ \A i \in DOMAIN s.entries :
                      ~Skip(s.entries[i]) =>
                        \E k \in (Len(out) + 1)..Len(out') :
                          out'[k].entry = s.entries[i]]_vars

C2_Witness ==
  /\ Len(steps) = 2
  /\ steps[1].err /= Nil
  /\ steps[2].err = Nil
  /\ errCount = 1
  /\ Len(logged) = 1
  /\ Len(out) = 2

\* C3: a format with a character outside p, t, s, h makes Lsf return the
\* Unknown format character error for the first such character; the walk
\* is never started and nothing is written.
C3_UnknownFormat ==
  ~ValidFormat =>
    /\ walkCalls = 0
    /\ steps = <<>>
    /\ out = <<>>
    /\ pc /= "walking"
    /\ pc = "done" => ret = ErrUnknownFormat(FirstUnknown)

C3_Witness ==
  /\ pc = "done"
  /\ Len(format) = 2
  /\ format[1] \in KnownChars
  /\ format[2] \in UnknownChars
  /\ ret = ErrUnknownFormat(format[2])

\* The field each format character stands for.
FieldOfChar(char) ==
  CASE char = "p" -> "path"
    [] char = "t" -> "modTime"
    [] char = "s" -> "size"
    [] char = "h" -> "hash"

\* C5: a format made only of p, t, s, h compiles: the ListFormat holds one
\* field per character, in the order of the characters, p giving path, t
\* modTime, s size and h hash, a repeated character giving a repeated field.
C5_FormatCompiled ==
  (ValidFormat /\ pc /= "start") =>
    /\ ret.kind /= "Unknown format character"
    /\ walkCalls = 1
    /\ Len(list) = Len(format)
    /\ \A i \in DOMAIN format : list[i] = FieldOfChar(format[i])

C5_Witness ==
  /\ pc = "done"
  /\ \E i, j \in DOMAIN list : i < j /\ list[i] = "size" /\ list[j] = "modTime"
  /\ \E i, j \in DOMAIN format : i < j /\ format[i] = "s" /\ format[j] = "t"

\* C6: with a valid format the callback returns nil for every step, and
\* Lsf returns an error only when the traversal itself fails.
C6_NoEscalation ==
  ValidFormat =>
    /\ AllNil(fnRets)
    /\ (pc = "done" /\ ret /= Nil) => (ret = ErrWalk /\ steps = <<>>)
    /\ (pc = "done" /\ steps /= <<>>) => ret = Nil

C6_Witness ==
  /\ pc = "done"
  /\ ret = Nil
  /\ errCount >= 1
  /\ hashResult.err = "failed"
  /\ \E i \in DOMAIN list : list[i] = "hash"
  /\ \E i \in DOMAIN out : ~out[i].entry.isDir

Kept(seq) == SelectSeq(seq, LAMBDA e : ~Skip(e))

\* What holds of the lines written so far, in every state.
C4_State ==
  /\ OutEntries = Kept(AllEntries)
  /\ \A i \in DOMAIN out :
       out[i].text = ListFormatted(out[i].entry, list) \o "\n"
  /\ ~sinkBroken => \A i \in DOMAIN out : out[i].ok

\* C4: the lines handed to the writer are the kept entries in delivery
\* order, one newline-terminated line each, nothing else; a working writer
\* receives every one of them; and lines once written are never reordered
\* or withdrawn: each step only appends.
C4_Order ==
  /\ []C4_State
  /\ [][/\ Len(out') >= Len(out)
        /\ SubSeq(out', 1, Len(out)) = out]_vars

C4_Witness ==
  /\ pc = "done"
  /\ ~sinkBroken
  /\ ~filesOnly /\ ~dirsOnly
  /\ Len(steps) = 2
  /\ Len(steps[1].entries) = 2
  /\ Len(steps[2].entries) = 2
  /\ steps[1].entries /= steps[2].entries
  /\ Len(out) = 4
  /\ Len(list) = 2

\* The Fprintln calls the writer refused.
FailedWrites == {i \in DOMAIN out : ~out[i].ok}

\* C7 as claimed: a refused write aborts the listing at once and Lsf
\* returns the write error.
C7_AbortsOnWriteError ==
  FailedWrites /= {} =>
    /\ Cardinality(FailedWrites) = 1
    /\ pc = "done"
    /\ ret = ErrWrite

\* C7, amended: a refused write is ignored.  The callback still hands a
\* line to the writer for every kept entry of every step, returns nil for
\* every step, and Lsf never returns the write error: it returns nil when
\* the walk has delivered its steps and returned.
C7_WriteErrorIgnored ==
  sinkBroken =>
    /\ FailedWrites = DOMAIN out
    /\ Len(out) = Len(Kept(AllEntries))
    /\ AllNil(fnRets)
    /\ ret /= ErrWrite
    /\ (pc = "done" /\ steps /= <<>>) => ret = Nil

C7_Witness ==
  /\ sinkBroken
  /\ pc = "done"
  /\ ret = Nil
  /\ Len(steps) = 2
  /\ Cardinality(FailedWrites) >= 3

\* C8 as claimed: the compiled field list is never empty, so the walk
\* never runs with zero fields and no line without a field is written.
C8_NeverEmpty ==
  /\ walkCalls > 0 => list /= <<>>
  /\ \A i \in DOMAIN out : out[i].text /= "\n"

\* C8, amended: the empty format compiles to an empty field list.  Lsf
\* then starts the walk with zero fields and writes a bare newline for
\* every kept entry; the field list of a started walk is empty only for
\* the empty format.
C8_EmptyFormatAccepted ==
  /\ (format = <<>> /\ pc /= "start") =>
       /\ ret.kind /= "Unknown format character"
       /\ walkCalls = 1
       /\ list = <<>>
       /\ Len(out) = Len(Kept(AllEntries))
       /\ \A i \in DOMAIN out : out[i].text = "\n"
  /\ (walkCalls > 0 /\ list = <<>>) => format = <<>>

C8_Witness ==
  /\ format = <<>>
  /\ pc = "done"
  /\ ret = Nil
  /\ Len(out) >= 2

\* The line of an entry with hv in every hash column.
RECURSIVE LineWithHash(_, _, _)
LineWithHash(entry, hv, i) ==
  LET text == IF list[i] = "hash" THEN hv ELSE FieldText(list[i], entry)
  IN IF i > Len(list) THEN "\n"
     ELSE IF i = Len(list) THEN text \o "\n"
     ELSE text \o separator \o LineWithHash(entry, hv, i + 1)

HasHash == \E i \in DOMAIN list : list[i] = "hash"

\* C9 as claimed: with h in the format, the hash column of a file is a
\* non-empty hex string, ERROR or UNSUPPORTED and never empty; only a
\* directory has an empty hash column.
C9_FileHashNeverEmpty ==
  HasHash =>
    \A i \in DOMAIN out :
      \E hv \in IF out[i].entry.isDir THEN {""}
                ELSE {HashHex, "ERROR", "UNSUPPORTED"} :
        out[i].text = LineWithHash(out[i].entry, hv, 1)

\* C9, amended: with h in the format, the hash column of a file is a
\* non-empty hex string, ERROR, UNSUPPORTED, or the empty string when the
\* hash is not available on the object; the hash column of a directory is
\* always empty.
C9_FileHashColumn ==
  HasHash =>
    \A i \in DOMAIN out :
      \E hv \in IF out[i].entry.isDir THEN {""}
                ELSE {HashHex, "ERROR", "UNSUPPORTED", ""} :
        /\ out[i].text = LineWithHash(out[i].entry, hv, 1)
        /\ (~out[i].entry.isDir /\ hv = "") =>
             (hashResult.err = "nil" /\ hashResult.sum = "")

C9_Witness ==
  /\ HasHash
  /\ hashResult = [sum |-> "", err |-> "nil"]
  /\ \E i, j \in DOMAIN out :
       /\ ~out[i].entry.isDir
       /\ out[i].text = LineWithHash(out[i].entry, "", 1)
       /\ out[j].entry.isDir

\* C10: with files-only and dirs-only both set nothing is rejected and
\* neither flag wins: the walk runs, every entry is dropped, no line is
\* written, and Lsf returns what the walk returns.
C10_BothFlags ==
  (filesOnly /\ dirsOnly) =>
    /\ out = <<>>
    /\ AllNil(fnRets)
    /\ (ValidFormat /\ pc /= "start") => walkCalls = 1
    /\ (ValidFormat /\ pc = "done") => ret \in {Nil, ErrWalk}
    /\ (pc = "done" /\ steps /= <<>>) => ret = Nil

C10_Witness ==
  /\ filesOnly /\ dirsOnly
  /\ pc = "done"
  /\ ret = Nil
  /\ Len(steps) = 2
  /\ \E i, j \in DOMAIN AllEntries : AllEntries[i].isDir /\ ~AllEntries[j].isDir

====
